---- MODULE Spec2Model ----
(***************************************************************************)
(* A model of src/btree.js: BinarySearchTree, an unbalanced binary search  *)
(* tree whose nodes hold a value (the key) and an object used as a set of  *)
(* ids.  The tree is modelled as a heap of node objects addressed by       *)
(* references, with the root reference beside it, so that the relinking    *)
(* done by remove is modelled assignment by assignment, aliasing included. *)
(***************************************************************************)
EXTENDS Integers, Sequences, FiniteSets

\* ------------------------------------------------------------------ bounds

\* Keys and ids of the specification Spec (several ids per key).
MaxKey == 3
MaxId == 2
\* Keys of the specification SpecShape (one id per key, deeper trees).
MaxShapeKey == 5
\* Live node objects the heap has room for.
MaxNodes == 6
\* Calls of add and remove made on one tree, in Spec and in SpecShape.
MaxCalls == 4
MaxShapeCalls == 8

Keys == 1..MaxKey
Ids == 1..MaxId
ShapeKeys == 1..MaxShapeKey
\* In SpecShape every key is added and removed under this one id, so that
\* every remove of a present key empties its id set and excises the node.
ShapeIds == {1}

AllKeys == 1..(IF MaxKey > MaxShapeKey THEN MaxKey ELSE MaxShapeKey)

\* ------------------------------------------------------------- references

\* The null reference (this._root = null, left: null, right: null).
NULL == 0
\* The value of a declared, never assigned variable (var replacementParent;).
UNDEFINED == -1

\* References to node objects: the heap holds at most MaxNodes live nodes.
Addr == 1..MaxNodes

\* A slot of the heap holding no live object.
FreeNode == [value |-> 0, left |-> NULL, right |-> NULL, ids |-> {}]

\* Mutant of NewNode: the line node.ids[id] = true is left out.
NewNodeNoId(value, id) == [value |-> value, left |-> NULL, right |-> NULL, ids |-> {}]

\* var node = { value: value, left: null, right: null, ids: { } };
\* node.ids[id] = true;
NewNode(value, id) == [value |-> value, left |-> NULL, right |-> NULL, ids |-> {id}]

VARIABLES
  heap,   \* [Addr -> node object]: the node objects
  root,   \* this._root
  last,   \* the last call: its name, arguments, the branch it took, how it ended
  abs,    \* history: for every key, the ids added under it and not removed since
  calls,  \* history: the number of calls of add and remove made so far
  pre     \* history: the heap and root as they were when the last call began

vars == <<heap, root, last, abs, calls, pre>>

\* --------------------------------------------------------------- reachability

Children(h, a) == {h[a].left, h[a].right} \ {NULL}

RECURSIVE ReachFrom(_, _, _)
ReachFrom(h, frontier, seen) ==
  IF frontier = {} THEN seen
  ELSE LET next == UNION {Children(h, a) : a \in frontier} \ (seen \cup frontier)
       IN ReachFrom(h, next, seen \cup frontier)

\* The node objects reachable from reference r.
Reach(h, r) == IF r = NULL THEN {} ELSE ReachFrom(h, {r}, {})

\* Objects no reference leads to are gone (garbage collection).
Collect(h, r) == [a \in Addr |-> IF a \in Reach(h, r) THEN h[a] ELSE FreeNode]

\* The references no reachable node has.
Free(h, r) == Addr \ Reach(h, r)

\* The reference of a fresh object literal: one no reachable node has (the
\* key itself when that one is free, else the least free one).
Alloc(h, r, value) ==
  IF value \in Free(h, r) THEN value
  ELSE CHOOSE a \in Free(h, r) : \A b \in Free(h, r) : a <= b

\* ------------------------------------------------------------------ search

\* The search loop of contains, equals and remove:
\*   while (!found && current) { if (value < current.value) ... }
\* remove's copy also keeps the parent of current.  The loop carries no state
\* but current, so it runs forever exactly when it comes back to a node: hang.
RECURSIVE Find(_, _, _, _, _)
Find(h, value, current, parent, seen) ==
  IF current = NULL
    THEN [found |-> FALSE, current |-> NULL, parent |-> parent, hang |-> FALSE]
  ELSE IF current \in seen
    THEN [found |-> FALSE, current |-> current, parent |-> parent, hang |-> TRUE]
  ELSE IF value < h[current].value
    THEN Find(h, value, h[current].left, current, seen \cup {current})
  ELSE IF value > h[current].value
    THEN Find(h, value, h[current].right, current, seen \cup {current})
  ELSE [found |-> TRUE, current |-> current, parent |-> parent, hang |-> FALSE]

\* contains(value, callback): what the callback gets, or "hang".
Contains(h, r, value) ==
  LET s == Find(h, value, r, NULL, {})
  IN IF s.hang THEN "hang" ELSE IF s.found THEN "true" ELSE "false"

\* equals(value, callback): the callback gets current.ids, or { }.
Equals(h, r, value) ==
  LET s == Find(h, value, r, NULL, {})
  IN IF s.hang THEN [outcome |-> "hang", ids |-> {}]
     ELSE IF s.found THEN [outcome |-> "ok", ids |-> h[s.current].ids]
     ELSE [outcome |-> "ok", ids |-> {}]

\* --------------------------------------------------------------- traversal

\* Mutant of InOrder: process is called on the node before its left subtree
\* is walked (a pre-order walk).
RECURSIVE InOrderPre(_, _, _)
InOrderPre(h, node, stack) ==
  IF node = NULL THEN [ok |-> TRUE, seq |-> <<>>]
  ELSE IF node \in stack THEN [ok |-> FALSE, seq |-> <<>>]
  ELSE LET l == IF h[node].left # NULL
                  THEN InOrderPre(h, h[node].left, stack \cup {node})
                  ELSE [ok |-> TRUE, seq |-> <<>>]
           rt == IF h[node].right # NULL
                  THEN InOrderPre(h, h[node].right, stack \cup {node})
                  ELSE [ok |-> TRUE, seq |-> <<>>]
       IN IF ~l.ok \/ ~rt.ok THEN [ok |-> FALSE, seq |-> <<>>]
          ELSE [ok |-> TRUE, seq |-> <<node>> \o l.seq \o rt.seq]

\* traverse's helper inOrder(node): left subtree, the node, right subtree.
\* stack holds the nodes of the calls in progress: coming back to one of them
\* is a recursion that never ends (the call stack overflows).
RECURSIVE InOrder(_, _, _)
InOrder(h, node, stack) ==
  IF node = NULL THEN [ok |-> TRUE, seq |-> <<>>]
  ELSE IF node \in stack THEN [ok |-> FALSE, seq |-> <<>>]
  ELSE LET l == IF h[node].left # NULL
                  THEN InOrder(h, h[node].left, stack \cup {node})
                  ELSE [ok |-> TRUE, seq |-> <<>>]
           rt == IF h[node].right # NULL
                  THEN InOrder(h, h[node].right, stack \cup {node})
                  ELSE [ok |-> TRUE, seq |-> <<>>]
       IN IF ~l.ok \/ ~rt.ok THEN [ok |-> FALSE, seq |-> <<>>]
          ELSE [ok |-> TRUE, seq |-> l.seq \o <<node>> \o rt.seq]

\* traverse(process): the nodes in the order process is called on them.
Traverse(h, r) == InOrder(h, r, {})

\* toArray(): result.push({ value: node.value, ids: node.ids }) per node.
ToArray(h, r) ==
  LET t == Traverse(h, r)
  IN [ok |-> t.ok,
      seq |-> [n \in 1..Len(t.seq) |-> [value |-> h[t.seq[n]].value, ids |-> h[t.seq[n]].ids]]]

\* size(): length++ per node.
Size(h, r) ==
  LET t == Traverse(h, r)
  IN [ok |-> t.ok, length |-> Len(t.seq)]

\* --------------------------------------------------------------------- add

\* Mutant of AddWalk: an equal key goes right (else if (value >= current.value))
\* instead of joining the node found.
RECURSIVE AddWalkDup(_, _, _, _)
AddWalkDup(h, value, current, seen) ==
  IF current \in seen THEN [branch |-> "hang", at |-> current]
  ELSE IF value < h[current].value
    THEN IF h[current].left = NULL THEN [branch |-> "left", at |-> current]
         ELSE AddWalkDup(h, value, h[current].left, seen \cup {current})
  ELSE IF h[current].right = NULL THEN [branch |-> "right", at |-> current]
  ELSE AddWalkDup(h, value, h[current].right, seen \cup {current})

\* Mutant of AddWalk: the walk never descends (the else branches
\* current = current.left and current = current.right are left out), so the
\* new node is linked below the root whatever the root's links hold.
AddWalkNoDescent(h, value, current, seen) ==
  IF value < h[current].value THEN [branch |-> "left", at |-> current]
  ELSE IF value > h[current].value THEN [branch |-> "right", at |-> current]
  ELSE [branch |-> "equal", at |-> current]

\* add's loop: where the walk from current ends for value.
RECURSIVE AddWalk(_, _, _, _)
AddWalk(h, value, current, seen) ==
  IF current \in seen THEN [branch |-> "hang", at |-> current]
  ELSE IF value < h[current].value
    THEN IF h[current].left = NULL THEN [branch |-> "left", at |-> current]
         ELSE AddWalk(h, value, h[current].left, seen \cup {current})
  ELSE IF value > h[current].value
    THEN IF h[current].right = NULL THEN [branch |-> "right", at |-> current]
         ELSE AddWalk(h, value, h[current].right, seen \cup {current})
  ELSE [branch |-> "equal", at |-> current]

\* add(value, id, callback): the heap and root it leaves.
AddOutcome(h, r, value, id) ==
  LET node == Alloc(h, r, value)
      hn == [h EXCEPT ![node] = NewNode(value, id)]
  IN IF r = NULL
       THEN [heap |-> hn, root |-> node, outcome |-> "ok", branch |-> "root"]
     ELSE LET w == AddWalk(h, value, r, {})
          IN CASE w.branch = "hang" ->
                    [heap |-> h, root |-> r, outcome |-> "hang", branch |-> "search"]
               [] w.branch = "left" ->
                    [heap |-> [hn EXCEPT ![w.at].left = node], root |-> r,
                     outcome |-> "ok", branch |-> "left"]
               [] w.branch = "right" ->
                    [heap |-> [hn EXCEPT ![w.at].right = node], root |-> r,
                     outcome |-> "ok", branch |-> "right"]
               [] OTHER ->
                    [heap |-> [h EXCEPT ![w.at].ids = @ \cup {id}], root |-> r,
                     outcome |-> "ok", branch |-> "equal"]

\* ------------------------------------------------------------------ remove

\* while (replacement.right !== null) { replacementParent = replacement;
\*                                      replacement = replacement.right; }
RECURSIVE Rightmost(_, _, _, _)
Rightmost(h, replacement, replacementParent, seen) ==
  IF replacement \in seen
    THEN [replacement |-> replacement, replacementParent |-> replacementParent,
          hang |-> TRUE]
  ELSE IF h[replacement].right # NULL
    THEN Rightmost(h, h[replacement].right, replacement, seen \cup {replacement})
  ELSE [replacement |-> replacement, replacementParent |-> replacementParent,
        hang |-> FALSE]

\* childCount = (current.left !== null ? 1 : 0) + (current.right !== null ? 1 : 0)
ChildCount(h, current) ==
  (IF h[current].left # NULL THEN 1 ELSE 0) + (IF h[current].right # NULL THEN 1 ELSE 0)

\* current === this._root, case 2.  replacementParent starts undefined, and
\* undefined !== null holds: with no step to the right, the assignment to
\* replacementParent.right is made on undefined and throws a TypeError.
RemoveRootTwo(h, r) ==
  LET w == Rightmost(h, h[r].left, UNDEFINED, {})
      replacement == w.replacement
      replacementParent == w.replacementParent
  IN IF w.hang
       THEN [heap |-> h, root |-> r, outcome |-> "hang", branch |-> "root2"]
     ELSE IF replacementParent # NULL
       THEN IF replacementParent = UNDEFINED
              THEN [heap |-> h, root |-> r, outcome |-> "throw", branch |-> "root2"]
            ELSE LET h1 == [h EXCEPT ![replacementParent].right = h[replacement].left]
                     h2 == [h1 EXCEPT ![replacement].right = h1[r].right]
                     h3 == [h2 EXCEPT ![replacement].left = h2[r].left]
                 IN [heap |-> h3, root |-> replacement, outcome |-> "ok",
                     branch |-> "root2"]
     ELSE [heap |-> [h EXCEPT ![replacement].right = h[r].right],
           root |-> replacement, outcome |-> "ok", branch |-> "root2"]

\* The link of parent that the code picks for current:
\*   if (current.value < parent.value) parent.left = x; else parent.right = x;
SetParentLink(h, current, parent, x) ==
  IF h[current].value < h[parent].value
    THEN [h EXCEPT ![parent].left = x]
    ELSE [h EXCEPT ![parent].right = x]

\* non-root, case 2.  replacementParent starts at current.
RemoveNodeTwo(h, r, current, parent) ==
  LET w == Rightmost(h, h[current].left, current, {})
      replacement == w.replacement
      replacementParent == w.replacementParent
  IN IF w.hang
       THEN [heap |-> h, root |-> r, outcome |-> "hang", branch |-> "node2"]
     ELSE LET h1 == [h EXCEPT ![replacementParent].right = h[replacement].left]
              h2 == [h1 EXCEPT ![replacement].right = h1[current].right]
              h3 == [h2 EXCEPT ![replacement].left = h2[current].left]
          IN [heap |-> SetParentLink(h3, current, parent, replacement), root |-> r,
              outcome |-> "ok", branch |-> "node2"]

\* The node current has lost its last id: take it out of the tree.
Excise(h, r, current, parent) ==
  LET childCount == ChildCount(h, current)
      only == IF h[current].left = NULL THEN h[current].right ELSE h[current].left
  IN IF current = r
       THEN CASE childCount = 0 ->
                   [heap |-> h, root |-> NULL, outcome |-> "ok", branch |-> "root0"]
              [] childCount = 1 ->
                   [heap |-> h,
                    root |-> IF h[current].right = NULL THEN h[current].left
                                                        ELSE h[current].right,
                    outcome |-> "ok", branch |-> "root1"]
              [] OTHER -> RemoveRootTwo(h, r)
     ELSE CASE childCount = 0 ->
                 [heap |-> SetParentLink(h, current, parent, NULL), root |-> r,
                  outcome |-> "ok", branch |-> "node0"]
            [] childCount = 1 ->
                 [heap |-> SetParentLink(h, current, parent, only), root |-> r,
                  outcome |-> "ok", branch |-> "node1"]
            [] OTHER -> RemoveNodeTwo(h, r, current, parent)

\* delete current.ids[id]
DeleteId(ids, id) == ids \ {id}

\* remove(value, id, callback): the heap and root it leaves.
RemoveOutcome(h, r, value, id) ==
  LET s == Find(h, value, r, NULL, {})
  IN IF s.hang
       THEN [heap |-> h, root |-> r, outcome |-> "hang", branch |-> "search"]
     ELSE IF ~s.found
       THEN [heap |-> h, root |-> r, outcome |-> "ok", branch |-> "absent"]
     ELSE LET h1 == [h EXCEPT ![s.current].ids = DeleteId(@, id)]
          IN IF Cardinality(h1[s.current].ids) # 0
               THEN [heap |-> h1, root |-> r, outcome |-> "ok", branch |-> "shrunk"]
             ELSE Excise(h1, r, s.current, s.parent)

\* ----------------------------------------------------------------- actions

\* new BinarySearchTree(): this._root = null.
Init ==
  /\ heap = [a \in Addr |-> FreeNode]
  /\ root = NULL
  /\ last = [op |-> "new", value |-> 0, id |-> 0, outcome |-> "ok", branch |-> "new"]
  /\ abs = [k \in AllKeys |-> {}]
  /\ calls = 0
  /\ pre = [heap |-> [a \in Addr |-> FreeNode], root |-> NULL]

\* A call that never returns (outcome "hang") is the last thing the program
\* does; a call that threw leaves the tree as it was at the throw, and the
\* caller may go on using it.
Running == last.outcome # "hang"

Add(value, id) ==
  /\ Running
  /\ Free(heap, root) # {}
  /\ LET o == AddOutcome(heap, root, value, id)
     IN /\ heap' = Collect(o.heap, o.root)
        /\ root' = o.root
        /\ last' = [op |-> "add", value |-> value, id |-> id,
                    outcome |-> o.outcome, branch |-> o.branch]
  /\ abs' = [abs EXCEPT ![value] = @ \cup {id}]
  /\ calls' = calls + 1
  /\ pre' = [heap |-> heap, root |-> root]

Remove(value, id) ==
  /\ Running
  /\ LET o == RemoveOutcome(heap, root, value, id)
     IN /\ heap' = Collect(o.heap, o.root)
        /\ root' = o.root
        /\ last' = [op |-> "remove", value |-> value, id |-> id,
                    outcome |-> o.outcome, branch |-> o.branch]
  /\ abs' = [abs EXCEPT ![value] = @ \ {id}]
  /\ calls' = calls + 1
  /\ pre' = [heap |-> heap, root |-> root]

Next ==
  \/ \E value \in Keys, id \in Ids : calls < MaxCalls /\ Add(value, id)
  \/ \E value \in Keys, id \in Ids : calls < MaxCalls /\ Remove(value, id)

Spec == Init /\ [][Next]_vars

NextShape ==
  \/ \E value \in ShapeKeys, id \in ShapeIds : calls < MaxShapeCalls /\ Add(value, id)
  \/ \E value \in ShapeKeys, id \in ShapeIds : calls < MaxShapeCalls /\ Remove(value, id)

SpecShape == Init /\ [][NextShape]_vars

\* Calls of add alone (no remove), on the keys of SpecShape.
NextAdds ==
  \E value \in ShapeKeys, id \in ShapeIds : calls < MaxShapeCalls /\ Add(value, id)

SpecAdds == Init /\ [][NextAdds]_vars

\* Pairs are added in any order, and then pairs that were added are removed
\* one by one in any order: no add follows a remove.
NextDrain ==
  \/ \E value \in ShapeKeys, id \in ShapeIds :
       calls < MaxShapeCalls /\ last.op # "remove" /\ Add(value, id)
  \/ \E value \in ShapeKeys, id \in ShapeIds :
       calls < MaxShapeCalls /\ id \in abs[value] /\ Remove(value, id)

SpecDrain == Init /\ [][NextDrain]_vars

\* ------------------------------------------------------------ observations

\* The keys held by the nodes reachable from r.
KeysOf(h, r) == {h[a].value : a \in Reach(h, r)}

\* The entries of a toArray result other than key k's.
Without(seq, k) == SelectSeq(seq, LAMBDA e : e.value # k)

\* A toArray result lists its keys in strictly ascending order.
Ascending(seq) == \A m, n \in 1..Len(seq) : m < n => seq[m].value < seq[n].value

\* The id set the node found for k held when the last call began.
PreIds(k) == Equals(pre.heap, pre.root, k).ids

\* The last call began on a tree built by add calls alone: every call before
\* it added a node (a remove adds none, so one remove leaves fewer nodes than
\* calls).
PreBuiltByAdds == calls = Cardinality(Reach(pre.heap, pre.root)) + 1

\* Every node of the tree holds at least one id.
IdsNonEmpty(h, r) == \A a \in Reach(h, r) : h[a].ids # {}

\* The search-tree order of the nodes reachable from r.
SearchTree(h, r) ==
  \A a \in Reach(h, r) :
    /\ \A b \in Reach(h, h[a].left) : h[b].value < h[a].value
    /\ \A b \in Reach(h, h[a].right) : h[b].value > h[a].value

\* ------------------------------------------------------------------ claims

\* C1: removing the last id of a key whose node has two children, from a tree
\* built by add calls, leaves toArray equal to the previous sequence without
\* that key's entry, in ascending order, with contains true for every
\* surviving key and false for the removed one.
C1_TwoChildRemoval ==
  (last.op = "remove" /\ last.branch \in {"root2", "node2"} /\ PreBuiltByAdds) =>
    /\ last.outcome = "ok"
    /\ ToArray(heap, root).ok
    /\ ToArray(heap, root).seq = Without(ToArray(pre.heap, pre.root).seq, last.value)
    /\ Ascending(ToArray(heap, root).seq)
    /\ \A k \in AllKeys :
         Contains(heap, root, k) =
           IF k \in KeysOf(pre.heap, pre.root) \ {last.value} THEN "true" ELSE "false"

\* C2: in every state, every key of a node's left subtree is less than the
\* node's key and every key of its right subtree is greater.
C2_SearchTreeInvariant == SearchTree(heap, root)

\* C3: equals(k) returns exactly the ids added under k and not removed
\* since (the empty set when there is none), and contains(k) is true exactly
\* when that set is non-empty.
C3_RefinesMap ==
  Running =>
    \A k \in AllKeys :
      /\ Equals(heap, root, k) = [outcome |-> "ok", ids |-> abs[k]]
      /\ Contains(heap, root, k) = IF abs[k] # {} THEN "true" ELSE "false"

\* C4: no call raises an error: remove and add return, and the traversal
\* behind size and toArray does not overflow the call stack.
C4_Total ==
  /\ last.outcome # "throw"
  /\ Traverse(heap, root).ok

\* C5: every call ends: add and remove return, the search of contains and
\* equals ends for every key, and the in-order recursion ends.
C5_Terminates ==
  /\ last.outcome # "hang"
  /\ \A k \in AllKeys : Contains(heap, root, k) # "hang"
  /\ Traverse(heap, root).ok

\* C6: every node of the tree has a non-empty id set, and a key leaves the
\* tree only by a remove call that deletes the last id of its set.
C6_NonEmptyIds ==
  /\ IdsNonEmpty(heap, root)
  /\ \A k \in KeysOf(pre.heap, pre.root) \ KeysOf(heap, root) :
       last.op = "remove" /\ last.value = k /\ PreIds(k) \subseteq {last.id}

\* C7: remove(K, i) with i in K's id set S: when S has another id, contains(K)
\* stays true, equals(K) is S without i and no link changes; when S = {i},
\* contains(K) becomes false and K is no longer in toArray.
C7_ShrinkThenRemove ==
  (last.op = "remove" /\ last.id \in PreIds(last.value) /\ IdsNonEmpty(pre.heap, pre.root)) =>
    IF PreIds(last.value) # {last.id}
      THEN /\ Contains(heap, root, last.value) = "true"
           /\ Equals(heap, root, last.value).ids = PreIds(last.value) \ {last.id}
           /\ root = pre.root
           /\ \A a \in Addr : /\ heap[a].left = pre.heap[a].left
                              /\ heap[a].right = pre.heap[a].right
      ELSE /\ Contains(heap, root, last.value) = "false"
           /\ ToArray(heap, root).ok
           /\ \A n \in 1..Len(ToArray(heap, root).seq) :
                ToArray(heap, root).seq[n].value # last.value

\* C8: remove(k, i) with k not in the tree, or with i not in the id set of
\* the node of k, leaves the tree as it was: root, links and id sets.
C8_NoOpOnAbsent ==
  (last.op = "remove" /\ last.outcome # "hang" /\ last.id \notin PreIds(last.value)) =>
    /\ heap = pre.heap
    /\ root = pre.root

\* C9: when add(k, i) has returned, equals(k) holds i and contains(k) is true.
C9_AddThenLookup ==
  (last.op = "add" /\ last.outcome = "ok") =>
    /\ Contains(heap, root, last.value) = "true"
    /\ Equals(heap, root, last.value).outcome = "ok"
    /\ last.id \in Equals(heap, root, last.value).ids

\* C9 witness: add has linked a new node under a node of the tree.
C9_Witness ==
  /\ last.op = "add" /\ last.outcome = "ok" /\ last.branch = "left"
  /\ Cardinality(Reach(heap, root)) >= 2

\* C10: a second add(k, i) right after the first leaves the tree as the
\* first left it: same root, same nodes, same id sets, same toArray.
C10_AddIdempotent ==
  (last.op = "add" /\ last.outcome = "ok") =>
    LET again == AddOutcome(heap, root, last.value, last.id)
    IN /\ again.outcome = "ok"
       /\ again.root = root
       /\ Collect(again.heap, again.root) = heap
       /\ ToArray(again.heap, again.root) = ToArray(heap, root)

\* C10 witness: add has put a second id under a key that had one.
C10_Witness ==
  /\ last.op = "add" /\ last.outcome = "ok" /\ last.branch = "equal"
  /\ Cardinality(Equals(heap, root, last.value).ids) = 2
  /\ PreIds(last.value) # Equals(heap, root, last.value).ids

\* C11: after any sequence of add calls alone, toArray lists the keys in
\* strictly ascending order, so no key twice.
C11_AscendingAfterAdds ==
  /\ ToArray(heap, root).ok
  /\ Ascending(ToArray(heap, root).seq)
  /\ {ToArray(heap, root).seq[n].value : n \in 1..Len(ToArray(heap, root).seq)}
       = {k \in AllKeys : abs[k] # {}}

\* C11 witness: adds have built a tree whose root has both children and a
\* grandchild, and a key was added a second time.
C11_Witness ==
  /\ last.op = "add" /\ last.branch = "equal"
  /\ root # NULL /\ heap[root].left # NULL /\ heap[root].right # NULL
  /\ Cardinality(Reach(heap, root)) >= 4

\* C12: add(k, i) with a key a node of the tree holds adds i to that node's
\* id set and makes no node; no two nodes of the tree hold the same key; and
\* size() is the number of distinct keys.
C12_OneNodePerKey ==
  /\ (last.op = "add" /\ last.outcome = "ok" /\ last.value \in KeysOf(pre.heap, pre.root)) =>
       /\ Reach(heap, root) = Reach(pre.heap, pre.root)
       /\ \A a \in Reach(heap, root) :
            heap[a].ids = IF heap[a].value = last.value
                            THEN pre.heap[a].ids \cup {last.id}
                            ELSE pre.heap[a].ids
  /\ \A a, b \in Reach(heap, root) : heap[a].value = heap[b].value => a = b
  /\ Size(heap, root) = [ok |-> TRUE, length |-> Cardinality(KeysOf(heap, root))]

\* C13: while added pairs are removed one by one, the tree holds exactly the
\* keys that still have an unremoved id, and once every pair is removed the
\* tree is empty: the root is null, size() is 0 and toArray is empty.
C13_DrainsToEmpty ==
  /\ KeysOf(heap, root) = {k \in AllKeys : abs[k] # {}}
  /\ (\A k \in AllKeys : abs[k] = {}) =>
       /\ root = NULL
       /\ Size(heap, root) = [ok |-> TRUE, length |-> 0]
       /\ ToArray(heap, root) = [ok |-> TRUE, seq |-> <<>>]

\* C14: in every state size() is the length of toArray(), both are the number
\* of keys the tree holds, and the traversal behind them visits every node
\* once, in ascending key order.
C14_SizeIsTraversalCount ==
  /\ Size(heap, root).ok /\ ToArray(heap, root).ok
  /\ Size(heap, root).length = Len(ToArray(heap, root).seq)
  /\ Size(heap, root).length = Cardinality(KeysOf(heap, root))
  /\ \A m, n \in 1..Len(Traverse(heap, root).seq) :
       Traverse(heap, root).seq[m] = Traverse(heap, root).seq[n] => m = n
  /\ Ascending(ToArray(heap, root).seq)

\* The node remove(last.value, ...) found when the last call began, and the
\* parent it was reached from (NULL for the root).
PreFound == Find(pre.heap, last.value, pre.root, NULL, {})

\* C15: when remove excises a node N with two children whose left child L has
\* no right child, the call returns with L in N's position (the root, or the
\* link of N's parent that led to N), L.right is N's former right child,
\* L.left is L's own former left child, and every node of N's former right
\* subtree keeps its links; for N the root and for N below the root.
C15_DirectLeftChild ==
  (/\ last.op = "remove" /\ last.branch \in {"root2", "node2"}
   /\ pre.heap[pre.heap[PreFound.current].left].right = NULL) =>
    LET N == PreFound.current
        P == PreFound.parent
        L == pre.heap[N].left
    IN /\ last.outcome = "ok"
       /\ IF N = pre.root THEN root = L
          ELSE /\ root = pre.root
               /\ IF pre.heap[P].left = N THEN heap[P].left = L ELSE heap[P].right = L
       /\ heap[L].right = pre.heap[N].right
       /\ heap[L].left = pre.heap[L].left
       /\ heap[L].left # L
       /\ \A a \in Reach(pre.heap, pre.heap[N].right) :
            /\ heap[a].left = pre.heap[a].left
            /\ heap[a].right = pre.heap[a].right

\* The child links of the reachable nodes that lead to node a, as
\* <<parent, side>> pairs.
Incoming(h, r, a) ==
  {<<p, "left">> : p \in {q \in Reach(h, r) : h[q].left = a}}
    \cup {<<p, "right">> : p \in {q \in Reach(h, r) : h[q].right = a}}

\* C16: in every state the nodes reachable from the root form a tree: no
\* child link leads to the root, exactly one child link leads to every other
\* node, and no node is reachable from itself over left and right links.
C16_TreeShape ==
  \A a \in Reach(heap, root) :
    /\ Cardinality(Incoming(heap, root, a)) = (IF a = root THEN 0 ELSE 1)
    /\ a \notin ReachFrom(heap, Children(heap, a), {})

\* C17: when remove deletes the last id of a node N with no child, the link
\* that led to N (the root, or the link of N's parent) becomes null; with one
\* child, that child takes the link and every node of the child's subtree is
\* as it was; in both cases every node but N stays in the tree with its key
\* and its id set.
C17_ZeroOneChild ==
  (/\ last.op = "remove"
   /\ last.branch \in {"root0", "node0", "root1", "node1"}
   /\ pre.heap[PreFound.current].ids = {last.id}) =>
    LET N == PreFound.current
        P == PreFound.parent
        only == IF pre.heap[N].left = NULL THEN pre.heap[N].right ELSE pre.heap[N].left
    IN /\ last.outcome = "ok"
       /\ IF N = pre.root THEN root = only
          ELSE /\ root = pre.root
               /\ IF pre.heap[P].left = N
                    THEN heap[P].left = only /\ heap[P].right = pre.heap[P].right
                    ELSE heap[P].right = only /\ heap[P].left = pre.heap[P].left
       /\ \A a \in Reach(pre.heap, only) : heap[a] = pre.heap[a]
       /\ \A a \in Reach(pre.heap, pre.root) \ {N} :
            /\ a \in Reach(heap, root)
            /\ heap[a].value = pre.heap[a].value
            /\ heap[a].ids = pre.heap[a].ids

\* C18: a returned add(k, i) whose search does not find k changes exactly one
\* link, the root of an empty tree or else the null child slot at the end of
\* the search path for k, to point at a new leaf with id set {i}; when the
\* search finds k it changes only the id set of the node found, which gains
\* i; in both cases every other node keeps its key, id set and links.
C18_InsertionFrame ==
  (last.op = "add" /\ last.outcome = "ok") =>
    IF ~PreFound.found
      THEN \E n \in Addr \ Reach(pre.heap, pre.root) :
             IF pre.root = NULL
               THEN /\ root = n
                    /\ heap = [pre.heap EXCEPT ![n] = NewNode(last.value, last.id)]
               ELSE /\ root = pre.root
                    /\ heap =
                         IF last.value < pre.heap[PreFound.parent].value
                           THEN [pre.heap EXCEPT ![n] = NewNode(last.value, last.id),
                                                 ![PreFound.parent].left = n]
                           ELSE [pre.heap EXCEPT ![n] = NewNode(last.value, last.id),
                                                 ![PreFound.parent].right = n]
                    /\ IF last.value < pre.heap[PreFound.parent].value
                         THEN pre.heap[PreFound.parent].left = NULL
                         ELSE pre.heap[PreFound.parent].right = NULL
      ELSE /\ root = pre.root
           /\ heap = [pre.heap EXCEPT ![PreFound.current].ids = @ \cup {last.id}]

\* A new leaf was linked below a node other than the root.
C18_Witness ==
  /\ last.op = "add" /\ last.outcome = "ok" /\ last.branch \in {"left", "right"}
  /\ PreFound.parent # pre.root
  /\ Cardinality(Reach(heap, root)) = Cardinality(Reach(pre.heap, pre.root)) + 1

\* if (callback) { callback(null); } is the last statement of add and of
\* remove (and stands before the early return of remove): the argument lists
\* of the callback invocations a call makes.  A call that throws or never
\* returns does not get to it.
Callbacks(outcome) == IF outcome = "ok" THEN << <<NULL>> >> ELSE << >>

\* C19: every call of add and of remove, on each of remove's paths (key
\* absent, id set still non-empty, node excised), invokes its callback exactly
\* once with a null error, and contains and equals called in any state do so
\* as well.
C19_OneCallback ==
  /\ last.op \in {"add", "remove"} => Callbacks(last.outcome) = << <<NULL>> >>
  /\ \A k \in AllKeys :
       /\ Contains(heap, root, k) # "hang"
       /\ Equals(heap, root, k).outcome = "ok"

====
